---- MODULE Spec2Model ----
(***************************************************************************)
(* Certificate orchestrator (certificate_orchestrator/src/lib.rs) and the  *)
(* issuer's worker pipeline (certificate_issuer/src/work.rs).              *)
(*                                                                         *)
(* The orchestrator is a single-threaded canister: every public method     *)
(* and every timer callback runs to completion, so each is one action.     *)
(* lib.rs builds every component (Creator, Updater, Uploader, Queuer,      *)
(* Dispenser, Expirer, Retrier) from references to the structures it may   *)
(* touch; a component changes a structure only if lib.rs hands it that     *)
(* structure.  The bodies of the components live in modules that are not   *)
(* part of the sources at hand (registration, work, certificate, acl, id); *)
(* their steps follow the written specification, restricted to the         *)
(* structures lib.rs wires in.                                             *)
(*                                                                         *)
(* Time is in seconds (the canister uses nanoseconds; every duration in    *)
(* lib.rs is a whole number of seconds).                                   *)
(*                                                                         *)
(* The worker's Processor and CanisterDispenser are taken from work.rs;    *)
(* its loop around them follows the written specification.  The key        *)
(* manager's rotate_idkg_dealing_encryption_keys (crypto/src/keygen) is    *)
(* known through its tests only and is modelled as the tests fix it.       *)
(***************************************************************************)
EXTENDS Integers, FiniteSets, Sequences, TLC

VARIABLES now, ticks, steps, ROOT_PRINCIPALS, ALLOWED_PRINCIPALS, ID_COUNTER, ID_SEED,
          REGISTRATIONS, NAMES, ENCRYPTED_CERTIFICATES,
          TASKS, EXPIRATIONS, RETRIES, resp, hist,
          wk, km

vars == <<now, ticks, steps, ROOT_PRINCIPALS, ALLOWED_PRINCIPALS, ID_COUNTER, ID_SEED,
          REGISTRATIONS, NAMES, ENCRYPTED_CERTIFICATES,
          TASKS, EXPIRATIONS, RETRIES, resp, hist, wk, km>>

(***************************************************************************)
(* Bounds of the model.                                                    *)
(***************************************************************************)
MaxCreates == 2
MaxTicks == 1
MaxSteps == 5
\* Clock steps in a run with a worker.
MaxLiveTicks == 2
\* Calls of rotate_idkg_dealing_encryption_keys in a run.
MaxRotateCalls == 2

(***************************************************************************)
(* Program constants.                                                      *)
(***************************************************************************)
REGISTRATION_EXPIRATION_TTL == 6 * 3600
IN_PROGRESS_TTL_short == 60 - 1
IN_PROGRESS_TTL == 10 * 60
TIMER_INTERVAL == 60
MEMORY_ID_TASKS == 7
MEMORY_ID_EXPIRATIONS == 8
MEMORY_ID_RETRIES == 9
RETRY_BACKOFF == 60
PROCESS_ERROR_DELAY == 60
\* In seconds; the tests step one nanosecond to either side of it, the model one
\* second.
TWO_WEEKS == 2 * 7 * 24 * 60 * 60

(***************************************************************************)
(* Inputs.                                                                 *)
(***************************************************************************)
Principals == {"root", "worker"}
InitRootPrincipals == {"root"}
\* The principals the root is asked to allow or remove.
AllowInputs == {"worker"}
IdSeeds == {7}
Canisters == {"canister"}
\* A name is its sequence of labels.
ValidNames == {<<"a", "com">>, <<"b", "com">>}
InvalidNames == {<<"localhost">>}
NameInputs == ValidNames \cup InvalidNames
Pairs == {<<"key", "cert">>}
States == {"PendingOrder", "PendingChallengeResponse", "PendingAcmeApproval",
           "Available", "Failed"}
TickSteps == {TIMER_INTERVAL, IN_PROGRESS_TTL, REGISTRATION_EXPIRATION_TTL}
QueueDelays == {0, TIMER_INTERVAL}
\* The states workers report in this specification.
UpdateInputs == {"PendingChallengeResponse", "Available", "Failed"}

\* The worker's identity at the orchestrator.
Worker == "worker"
\* The zone the challenge records are published in (Processor.delegation_domain).
DelegationDomain == <<"delegation", "example">>
\* What the collaborators of Processor can answer: acme order (a challenge key
\* or an error), dns create, the resolver's TXT lookup, acme ready, acme
\* finalize (which returns Finalized, the certificate chain and the private
\* key, when it succeeds), dns delete, and the certificate upload ("canister":
\* the call goes to the orchestrator).
ChallengeKeys == {"token1", "token2"}
Finalized == <<"cert", "key">>
Envs == [order : ChallengeKeys \cup {"err"}, create : {"ok", "err"},
         lookup : {"ok", "NoRecordsFound", "err"}, ready : {"ok", "err"},
         finalize : {"ok", "err"}, delete : {"ok", "err"}, upload : {"ok", "err"}]
AllOk == [order |-> "token1", create |-> "ok", lookup |-> "ok", ready |-> "ok",
          finalize |-> "ok", delete |-> "ok", upload |-> "canister"]
Actions == {"Order", "Ready", "Certificate"}
\* In a run with a worker: the names created and the steps of the clock.
\* Collaborators of which one always fails: the ACME order, or the resolver.
FailingEnvs == {[order |-> "err", create |-> "ok", lookup |-> "ok", ready |-> "ok",
                 finalize |-> "ok", delete |-> "ok", upload |-> "canister"],
                [order |-> "token1", create |-> "ok", lookup |-> "err", ready |-> "ok",
                 finalize |-> "ok", delete |-> "ok", upload |-> "canister"]}
LiveNames == {<<"a", "com">>}
LiveTickSteps == {PROCESS_ERROR_DELAY, REGISTRATION_EXPIRATION_TTL}

NoId == <<>>
None == 0 - 1

(***************************************************************************)
(* The wiring of lib.rs: the structures each component is constructed      *)
(* with.                                                                   *)
(***************************************************************************)
CREATOR_noGenerator == {"REGISTRATIONS", "NAMES", "EXPIRATIONS"}
CREATOR == {"ID_GENERATOR", "REGISTRATIONS", "NAMES", "EXPIRATIONS"}
GETTER == {"REGISTRATIONS"}
UPDATER_noRetries == {"REGISTRATIONS", "EXPIRATIONS"}
UPDATER_noExpirations == {"REGISTRATIONS", "RETRIES"}
UPDATER == {"REGISTRATIONS", "EXPIRATIONS", "RETRIES"}
UPLOADER_pairsOnly == {"ENCRYPTED_CERTIFICATES"}
UPLOADER == {"ENCRYPTED_CERTIFICATES", "REGISTRATIONS"}
EXPORTER == {"ENCRYPTED_CERTIFICATES", "REGISTRATIONS"}
QUEUER == {"TASKS", "REGISTRATIONS"}
DISPENSER_keepsTask == {"RETRIES"}
DISPENSER_noLease == {"TASKS"}
DISPENSER == {"TASKS", "RETRIES"}
EXPIRER == {"REGISTRATIONS", "NAMES", "TASKS", "EXPIRATIONS"}
RETRIER_noTasks == {"RETRIES"}
RETRIER_noRetries == {"TASKS"}
RETRIER == {"TASKS", "RETRIES"}

(***************************************************************************)
(* PriorityQueue<Id, Reverse<u64>>: a map from id to timestamp; the head   *)
(* is an entry with the smallest timestamp.                                *)
(***************************************************************************)
Push_keepsEarlier(q, id, p) ==
    IF id \in DOMAIN q THEN q ELSE [x \in (DOMAIN q) \cup {id} |-> IF x = id THEN p ELSE q[x]]
Push(q, id, p) == [x \in (DOMAIN q) \cup {id} |-> IF x = id THEN p ELSE q[x]]
Remove(q, id) == [x \in (DOMAIN q) \ {id} |-> q[x]]
RemoveAll(q, ids) == [x \in (DOMAIN q) \ ids |-> q[x]]
Heads(q) == {x \in DOMAIN q : \A y \in DOMAIN q : q[x] <= q[y]}
Due(q, t) == {x \in DOMAIN q : q[x] <= t}
Empty == [x \in {} |-> 0]

\* A component's write reaches a structure only if lib.rs wires it in.
Via(component, structure, new, old) == IF structure \in component THEN new ELSE old

(***************************************************************************)
(* ID generator: increments the counter and derives the id from            *)
(* (seed, counter).                                                        *)
(***************************************************************************)
Hash(seed, counter) == <<seed, counter>>
Ids == {Hash(s, c) : s \in IdSeeds, c \in 1..MaxCreates}

\* Name validation: at least two labels.
NameOk(name) == Len(name) >= 2

Authorized(caller, set) == caller \in set

\* The two authorizers of lib.rs and the principal set each one reads.
ROOT_AUTHORIZER_orAllowed == ROOT_PRINCIPALS \cup ALLOWED_PRINCIPALS
ROOT_AUTHORIZER == ROOT_PRINCIPALS
MAIN_AUTHORIZER_open == Principals
MAIN_AUTHORIZER == ALLOWED_PRINCIPALS

Answer(op, id, res) == [op |-> op, id |-> id, res |-> res]

(***************************************************************************)
(* Bookkeeping for the properties (not program state), per id: when it was *)
(* created and last dispensed; since that dispense, whether no call has    *)
(* named it (quiet) and whether a queueTask or a Failed update has named   *)
(* it (rearmed); and whether its state was ever written after creation.    *)
(***************************************************************************)
NoHist == [createdAt |-> None, dispensedAt |-> None, quiet |-> FALSE,
           rearmed |-> FALSE, updated |-> FALSE]
Mention(h, ids) == [x \in DOMAIN h |-> IF x \in ids THEN [h[x] EXCEPT !.quiet = FALSE] ELSE h[x]]

\* The key manager of the crypto component (crypto/src/keygen), as its tests
\* set it up: whether the registry can be read, the node's place among the
\* subnets, the ECDSA configuration of its subnet and the key rotation period,
\* the iDKG dealing encryption key registered for the node, the time, the
\* local iDKG dealing encryption public keys (the last one is current), the
\* number of rotate calls made and the result of the last one.  "off": not
\* under consideration.
NoKeys == [pc |-> "off", registry |-> "none", subnet |-> "none", ecdsa |-> "none",
           period |-> None, registered |-> [key |-> 0, timestamp |-> None], time |-> 0,
           local |-> <<>>, calls |-> 0, result |-> [res |-> "none", key |-> 0]]

\* The worker (certificate_issuer): where its loop stands, the id and the task
\* it holds, how its collaborators answer, the calls process has made and the
\* result of process.  "off": no worker runs.
NoTask == [name |-> <<>>, action |-> "none"]
NoEnv == [order |-> "none", create |-> "none", lookup |-> "none", ready |-> "none",
          finalize |-> "none", delete |-> "none", upload |-> "none"]
NoWorker == [pc |-> "off", id |-> NoId, task |-> NoTask, env |-> NoEnv,
             calls |-> <<>>, result |-> "none"]

Init ==
    /\ now = 0
    /\ ticks = 0
    /\ steps = 0
    /\ ROOT_PRINCIPALS = InitRootPrincipals
    /\ ALLOWED_PRINCIPALS = {}
    /\ ID_COUNTER = 0
    /\ ID_SEED \in IdSeeds
    /\ REGISTRATIONS = Empty
    /\ NAMES = Empty
    /\ ENCRYPTED_CERTIFICATES = Empty
    /\ TASKS = Empty
    /\ EXPIRATIONS = Empty
    /\ RETRIES = Empty
    /\ resp = Answer("init", NoId, "Ok")
    /\ hist = [x \in Ids |-> NoHist]
    /\ wk = NoWorker
    /\ km = NoKeys

\* The number of calls and timer runs that change a structure is bounded while
\* no worker runs; a run with a worker is bounded by the clock and the creates.
Count == IF wk.pc = "off" THEN steps < MaxSteps /\ steps' = steps + 1 ELSE UNCHANGED steps

\* A call that is refused, or a query: it answers and changes nothing.
\* resp holds the answer of the last call or timer run that changed a structure,
\* until the clock moves on.
NoEffect == UNCHANGED vars

(***************************************************************************)
(* Creator::create behind WithAuthorize(_, MAIN_AUTHORIZER)                *)
(***************************************************************************)
create_answer(caller, name) ==
    IF ~Authorized(caller, MAIN_AUTHORIZER) THEN Answer("create", NoId, "Unauthorized")
    ELSE IF ~NameOk(name) THEN Answer("create", NoId, "NameError")
    ELSE IF name \in DOMAIN NAMES
            /\ NAMES[name] \in DOMAIN REGISTRATIONS
            /\ REGISTRATIONS[NAMES[name]].state # "Available"
    THEN Answer("create", NAMES[name], "Duplicate")
    ELSE Answer("create", Hash(ID_SEED, ID_COUNTER + 1), "Ok")

Creator_create(a, name, canister) ==
    LET id == a.id
        reg == [name |-> name, canister |-> canister, state |-> "PendingOrder",
                created_at |-> now]
    IN
    /\ ID_COUNTER < MaxCreates
    /\ ID_COUNTER' = Via(CREATOR, "ID_GENERATOR", ID_COUNTER + 1, ID_COUNTER)
    /\ REGISTRATIONS' = Via(CREATOR, "REGISTRATIONS", Push(REGISTRATIONS, id, reg), REGISTRATIONS)
    /\ NAMES' = Via(CREATOR, "NAMES", Push(NAMES, name, id), NAMES)
    /\ EXPIRATIONS' = Via(CREATOR, "EXPIRATIONS",
                          Push(EXPIRATIONS, id, now + REGISTRATION_EXPIRATION_TTL), EXPIRATIONS)
    /\ TASKS' = Via(CREATOR, "TASKS", Push(TASKS, id, now), TASKS)
    /\ resp' = a
    /\ hist' = [hist EXCEPT ![id] = [NoHist EXCEPT !.createdAt = now]]
    /\ Count
    /\ UNCHANGED <<now, ticks, ROOT_PRINCIPALS, ALLOWED_PRINCIPALS, ID_SEED,
                   ENCRYPTED_CERTIFICATES, RETRIES>>

create_registration(caller, name, canister) ==
    LET a == create_answer(caller, name)
    IN IF a.res # "Ok" THEN NoEffect ELSE Creator_create(a, name, canister)

(***************************************************************************)
(* Getter::get behind WithAuthorize (a query)                              *)
(***************************************************************************)
get_answer(caller, id) ==
    IF ~Authorized(caller, MAIN_AUTHORIZER) THEN Answer("get", NoId, "Unauthorized")
    ELSE IF id \notin DOMAIN REGISTRATIONS THEN Answer("get", id, "NotFound")
    ELSE Answer("get", id, "Ok")

\* The registration a successful get returns.
Getter_get(id) == REGISTRATIONS[id]

get_registration(caller, id) == NoEffect

(***************************************************************************)
(* Updater::update behind WithAuthorize                                    *)
(***************************************************************************)
UpdatedRetries(id, state) ==
    IF state = "Failed" THEN Push(RETRIES, id, now + RETRY_BACKOFF)
    ELSE IF state = "Available" THEN Remove(RETRIES, id)
    ELSE RETRIES

UpdatedExpirations(id, state) ==
    IF state = "Available" THEN Remove(EXPIRATIONS, id)
    ELSE Push(EXPIRATIONS, id, now + REGISTRATION_EXPIRATION_TTL)

UpdatedTasks(id, state) ==
    IF state = "Available" THEN Remove(TASKS, id) ELSE TASKS

update_answer(caller, id) ==
    IF ~Authorized(caller, MAIN_AUTHORIZER) THEN Answer("update", NoId, "Unauthorized")
    ELSE IF id \notin DOMAIN REGISTRATIONS THEN Answer("update", id, "NotFound")
    ELSE Answer("update", id, "Ok")

Updater_update(a, id, state) ==
    /\ REGISTRATIONS' = Via(UPDATER, "REGISTRATIONS",
                            [REGISTRATIONS EXCEPT ![id].state = state], REGISTRATIONS)
    /\ RETRIES' = Via(UPDATER, "RETRIES", UpdatedRetries(id, state), RETRIES)
    /\ EXPIRATIONS' = Via(UPDATER, "EXPIRATIONS", UpdatedExpirations(id, state), EXPIRATIONS)
    /\ TASKS' = Via(UPDATER, "TASKS", UpdatedTasks(id, state), TASKS)
    /\ resp' = a
    /\ hist' = [hist EXCEPT ![id].quiet = FALSE, ![id].updated = TRUE,
                             ![id].rearmed = @ \/ state = "Failed"]
    /\ Count
    /\ UNCHANGED <<now, ticks, ROOT_PRINCIPALS, ALLOWED_PRINCIPALS, ID_COUNTER, ID_SEED,
                   NAMES, ENCRYPTED_CERTIFICATES>>

update_registration(caller, id, state) ==
    LET a == update_answer(caller, id)
    IN IF a.res # "Ok" THEN NoEffect ELSE Updater_update(a, id, state)

(***************************************************************************)
(* Uploader::upload behind WithAuthorize                                   *)
(***************************************************************************)
upload_answer(caller, id) ==
    IF ~Authorized(caller, MAIN_AUTHORIZER) THEN Answer("upload", NoId, "Unauthorized")
    ELSE IF id \notin DOMAIN REGISTRATIONS THEN Answer("upload", id, "NotFound")
    ELSE Answer("upload", id, "Ok")

Uploader_upload(a, id, pair) ==
    /\ ENCRYPTED_CERTIFICATES' = Via(UPLOADER, "ENCRYPTED_CERTIFICATES",
                             Push(ENCRYPTED_CERTIFICATES, id, pair), ENCRYPTED_CERTIFICATES)
    /\ REGISTRATIONS' = Via(UPLOADER, "REGISTRATIONS",
                            [REGISTRATIONS EXCEPT ![id].state = "Available"], REGISTRATIONS)
    /\ RETRIES' = Via(UPLOADER, "RETRIES", UpdatedRetries(id, "Available"), RETRIES)
    /\ EXPIRATIONS' = Via(UPLOADER, "EXPIRATIONS", UpdatedExpirations(id, "Available"), EXPIRATIONS)
    /\ TASKS' = Via(UPLOADER, "TASKS", UpdatedTasks(id, "Available"), TASKS)
    /\ resp' = a
    /\ hist' = [hist EXCEPT ![id].quiet = FALSE, ![id].updated = TRUE]
    /\ Count
    /\ UNCHANGED <<now, ticks, ROOT_PRINCIPALS, ALLOWED_PRINCIPALS, ID_COUNTER, ID_SEED,
                   NAMES>>

upload_certificate_storesAnyway(caller, id, pair) ==
    IF ~Authorized(caller, MAIN_AUTHORIZER) THEN NoEffect
    ELSE IF id \in DOMAIN REGISTRATIONS
    THEN Uploader_upload(Answer("upload", id, "Ok"), id, pair)
    ELSE /\ ENCRYPTED_CERTIFICATES' = Push(ENCRYPTED_CERTIFICATES, id, pair)
         /\ resp' = Answer("upload", id, "Ok")
         /\ Count
         /\ UNCHANGED <<now, ticks, ROOT_PRINCIPALS, ALLOWED_PRINCIPALS, ID_COUNTER, ID_SEED,
                        REGISTRATIONS, NAMES, TASKS, EXPIRATIONS, RETRIES, hist>>

upload_certificate(caller, id, pair) ==
    LET a == upload_answer(caller, id)
    IN IF a.res # "Ok" THEN NoEffect ELSE Uploader_upload(a, id, pair)

(***************************************************************************)
(* Exporter::export behind WithAuthorize (a query): the Available          *)
(* registrations that have a pair, each with its name, id and pair.        *)
(***************************************************************************)
export_answer(caller) ==
    IF ~Authorized(caller, MAIN_AUTHORIZER) THEN Answer("export", NoId, "Unauthorized")
    ELSE Answer("export", NoId, "Ok")

Exporter_export ==
    {<<REGISTRATIONS[id].name, id, ENCRYPTED_CERTIFICATES[id]>> :
        id \in {x \in (DOMAIN REGISTRATIONS) \cap (DOMAIN ENCRYPTED_CERTIFICATES) :
                  REGISTRATIONS[x].state = "Available"}}

export_certificates(caller) == NoEffect

(***************************************************************************)
(* Queuer::queue behind WithAuthorize                                      *)
(***************************************************************************)
queue_answer(caller, id) ==
    IF ~Authorized(caller, MAIN_AUTHORIZER) THEN Answer("queue", NoId, "Unauthorized")
    ELSE IF id \notin DOMAIN REGISTRATIONS \/ REGISTRATIONS[id].state = "Available"
    THEN Answer("queue", id, "NotFound")
    ELSE Answer("queue", id, "Ok")

Queuer_queue(a, id, timestamp) ==
    /\ TASKS' = Via(QUEUER, "TASKS", Push(TASKS, id, timestamp), TASKS)
    /\ RETRIES' = Via(QUEUER, "RETRIES", Remove(RETRIES, id), RETRIES)
    /\ resp' = a
    /\ hist' = [hist EXCEPT ![id].quiet = FALSE, ![id].rearmed = TRUE]
    /\ Count
    /\ UNCHANGED <<now, ticks, ROOT_PRINCIPALS, ALLOWED_PRINCIPALS, ID_COUNTER, ID_SEED,
                   REGISTRATIONS, NAMES, ENCRYPTED_CERTIFICATES, EXPIRATIONS>>

queue_task_anyState(caller, id, timestamp) ==
    IF ~Authorized(caller, MAIN_AUTHORIZER) \/ id \notin DOMAIN REGISTRATIONS THEN NoEffect
    ELSE Queuer_queue(Answer("queue", id, "Ok"), id, timestamp)

queue_task(caller, id, timestamp) ==
    LET a == queue_answer(caller, id)
    IN IF a.res # "Ok" THEN NoEffect ELSE Queuer_queue(a, id, timestamp)

(***************************************************************************)
(* Dispenser::dispense and Dispenser::peek behind WithAuthorize.  The      *)
(* head is an entry of Tasks with the smallest due-time; it is handed out  *)
(* only if that due-time has come.                                         *)
(***************************************************************************)
dispense_answers(caller) ==
    IF ~Authorized(caller, MAIN_AUTHORIZER) THEN {Answer("dispense", NoId, "Unauthorized")}
    ELSE IF Due(TASKS, now) = {} THEN {Answer("dispense", NoId, "NoTasksAvailable")}
    ELSE {Answer("dispense", id, "Ok") : id \in Heads(TASKS)}

Dispenser_dispense(a) ==
    /\ TASKS' = Via(DISPENSER, "TASKS", Remove(TASKS, a.id), TASKS)
    /\ RETRIES' = Via(DISPENSER, "RETRIES", Push(RETRIES, a.id, now + IN_PROGRESS_TTL), RETRIES)
    /\ resp' = a
    /\ hist' = [hist EXCEPT ![a.id].dispensedAt = now, ![a.id].quiet = TRUE,
                             ![a.id].rearmed = FALSE]
    /\ Count
    /\ UNCHANGED <<now, ticks, ROOT_PRINCIPALS, ALLOWED_PRINCIPALS, ID_COUNTER, ID_SEED,
                   REGISTRATIONS, NAMES, ENCRYPTED_CERTIFICATES, EXPIRATIONS>>

dispense_task(caller) ==
    \E a \in dispense_answers(caller) :
       IF a.res # "Ok" THEN NoEffect ELSE Dispenser_dispense(a)

peek_answers(caller) ==
    IF ~Authorized(caller, MAIN_AUTHORIZER) THEN {Answer("peek", NoId, "Unauthorized")}
    ELSE IF Due(TASKS, now) = {} THEN {Answer("peek", NoId, "NoTasksAvailable")}
    ELSE {Answer("peek", id, "Ok") : id \in Heads(TASKS)}

peek_task_pops(caller) ==
    \E a \in dispense_answers(caller) :
       IF a.res # "Ok" THEN NoEffect ELSE Dispenser_dispense(a)

peek_task(caller) == NoEffect

(***************************************************************************)
(* Expirer::expire and Retrier::retry, run by the two interval timers with *)
(* the canister time.                                                      *)
(***************************************************************************)
Expirer_expire(t) ==
    LET gone == Due(EXPIRATIONS, t)
        goneNames == {n \in DOMAIN NAMES :
                        \E id \in gone \cap DOMAIN REGISTRATIONS : REGISTRATIONS[id].name = n}
    IN IF gone = {} THEN NoEffect
       ELSE /\ EXPIRATIONS' = Via(EXPIRER, "EXPIRATIONS", RemoveAll(EXPIRATIONS, gone), EXPIRATIONS)
            /\ REGISTRATIONS' = Via(EXPIRER, "REGISTRATIONS", RemoveAll(REGISTRATIONS, gone), REGISTRATIONS)
            /\ NAMES' = Via(EXPIRER, "NAMES", RemoveAll(NAMES, goneNames), NAMES)
            /\ TASKS' = Via(EXPIRER, "TASKS", RemoveAll(TASKS, gone), TASKS)
            /\ RETRIES' = Via(EXPIRER, "RETRIES", RemoveAll(RETRIES, gone), RETRIES)
            /\ resp' = Answer("expire", NoId, "Ok")
            /\ hist' = Mention(hist, gone)
            /\ Count
            /\ UNCHANGED <<now, ticks, ROOT_PRINCIPALS, ALLOWED_PRINCIPALS, ID_COUNTER, ID_SEED,
                           ENCRYPTED_CERTIFICATES>>

expire_timer == Expirer_expire(now)

Retrier_retry(t) ==
    LET due == Due(RETRIES, t)
    IN IF due = {} THEN NoEffect
       ELSE /\ RETRIES' = Via(RETRIER, "RETRIES", RemoveAll(RETRIES, due), RETRIES)
            /\ TASKS' = Via(RETRIER, "TASKS",
                            [x \in (DOMAIN TASKS) \cup due |-> IF x \in due THEN t ELSE TASKS[x]], TASKS)
            /\ resp' = Answer("retry", NoId, "Ok")
            /\ hist' = hist
            /\ Count
            /\ UNCHANGED <<now, ticks, ROOT_PRINCIPALS, ALLOWED_PRINCIPALS, ID_COUNTER, ID_SEED,
                           REGISTRATIONS, NAMES, ENCRYPTED_CERTIFICATES, EXPIRATIONS>>

retry_timer == Retrier_retry(now)

(***************************************************************************)
(* Allowlist management, authorized against the root principals            *)
(***************************************************************************)
modify_answer(caller) ==
    IF ~Authorized(caller, ROOT_AUTHORIZER) THEN "Unauthorized" ELSE "Ok"

list_answer(caller) ==
    IF ~Authorized(caller, ROOT_AUTHORIZER) THEN "Unauthorized" ELSE "Ok"

list_allowed_principals(caller) == NoEffect

add_allowed_principal_addsCaller(caller, principal) ==
    IF modify_answer(caller) # "Ok" THEN NoEffect
    ELSE /\ ALLOWED_PRINCIPALS' = ALLOWED_PRINCIPALS \cup {caller}
         /\ UNCHANGED <<now, ticks, steps, ROOT_PRINCIPALS, ID_COUNTER, ID_SEED,
                        REGISTRATIONS, NAMES, ENCRYPTED_CERTIFICATES,
                        TASKS, EXPIRATIONS, RETRIES, resp, hist>>

add_allowed_principal(caller, principal) ==
    IF modify_answer(caller) # "Ok" THEN NoEffect
    ELSE /\ ALLOWED_PRINCIPALS' = ALLOWED_PRINCIPALS \cup {principal}
         /\ UNCHANGED <<now, ticks, steps, ROOT_PRINCIPALS, ID_COUNTER, ID_SEED,
                        REGISTRATIONS, NAMES, ENCRYPTED_CERTIFICATES,
                        TASKS, EXPIRATIONS, RETRIES, resp, hist>>

rm_allowed_principal(caller, principal) ==
    IF modify_answer(caller) # "Ok" THEN NoEffect
    ELSE /\ ALLOWED_PRINCIPALS' = ALLOWED_PRINCIPALS \ {principal}
         /\ UNCHANGED <<now, ticks, steps, ROOT_PRINCIPALS, ID_COUNTER, ID_SEED,
                        REGISTRATIONS, NAMES, ENCRYPTED_CERTIFICATES,
                        TASKS, EXPIRATIONS, RETRIES, resp, hist>>

(***************************************************************************)
(* Upgrade: pre_upgrade_fn writes each queue to its memory region,         *)
(* the heap is lost, post_upgrade_fn reads each queue back and restarts    *)
(* the timers.  The stable maps keep their contents.  A region holds the   *)
(* queue as a sequence of (id, timestamp) pairs in key order.              *)
(***************************************************************************)
IdLess(a, b) == a[1] < b[1] \/ (a[1] = b[1] /\ a[2] < b[2])

RECURSIVE store(_)
store(q) ==
    IF DOMAIN q = {} THEN <<>>
    ELSE LET x == CHOOSE x \in DOMAIN q : \A y \in DOMAIN q : x = y \/ IdLess(x, y)
         IN <<<<x, q[x]>>>> \o store(Remove(q, x))

load(s) ==
    [id \in {s[i][1] : i \in DOMAIN s} |-> s[CHOOSE i \in DOMAIN s : s[i][1] = id][2]]

pre_upgrade_fn ==
    (MEMORY_ID_TASKS :> store(TASKS))
       @@ (MEMORY_ID_EXPIRATIONS :> store(EXPIRATIONS))
       @@ (MEMORY_ID_RETRIES :> store(RETRIES))

post_upgrade_fn_noRetries(m) ==
    /\ TASKS' = load(m[MEMORY_ID_TASKS])
    /\ EXPIRATIONS' = load(m[MEMORY_ID_EXPIRATIONS])
    /\ RETRIES' = Empty

post_upgrade_fn(m) ==
    /\ TASKS' = load(m[MEMORY_ID_TASKS])
    /\ EXPIRATIONS' = load(m[MEMORY_ID_EXPIRATIONS])
    /\ RETRIES' = load(m[MEMORY_ID_RETRIES])

upgrade ==
    /\ post_upgrade_fn(pre_upgrade_fn)
    /\ resp' = Answer("upgrade", NoId, "Ok")
    /\ Count
    /\ UNCHANGED <<now, ticks, ROOT_PRINCIPALS, ALLOWED_PRINCIPALS, ID_COUNTER, ID_SEED,
                   REGISTRATIONS, NAMES, ENCRYPTED_CERTIFICATES, hist>>

(***************************************************************************)
(* The issuer's worker (certificate_issuer/src/work.rs)                    *)
(***************************************************************************)
\* impl From<State> for Action
ActionFrom_renewalNoop(s) ==
    IF s \in {"Failed", "PendingOrder"} THEN "Order"
    ELSE IF s = "PendingChallengeResponse" THEN "Ready"
    ELSE IF s = "PendingAcmeApproval" THEN "Certificate"
    ELSE "none"

ActionFrom(s) ==
    IF s \in {"Failed", "PendingOrder"} THEN "Order"
    ELSE IF s = "PendingChallengeResponse" THEN "Ready"
    ELSE IF s = "PendingAcmeApproval" THEN "Certificate"
    ELSE "Order"

\* format!("_acme-challenge.{}", name) and
\* format!("_acme-challenge.{}.{}", name, delegation_domain), on label sequences.
ChallengeName(name) == <<"_acme-challenge">> \o name
LookupName(name) == <<"_acme-challenge">> \o name \o DelegationDomain

Call(fn, args) == [fn |-> fn, args |-> args]
Out(calls, result) == [calls |-> calls, result |-> result]

\* Processor::process: the calls it makes to its collaborators, in order, and
\* what it returns, given how the collaborators answer.
process_uploadsAnyway(id, task, env) ==
    LET c1 == <<Call("acme_finalize.finalize", <<task.name>>)>>
        c2 == Append(c1, Call("dns_deleter.delete", <<DelegationDomain, ChallengeName(task.name)>>))
        c3 == Append(c2, Call("certificate_uploader.upload", <<id, <<Finalized[2], Finalized[1]>> >>))
    IN IF env.finalize = "err" THEN Out(c1, "UnexpectedError")
       ELSE IF env.upload = "err" THEN Out(c3, "UnexpectedError")
       ELSE Out(c3, "Ok")

process_orderSkipsDns(id, task, env) ==
    Out(<<Call("acme_order.order", <<task.name>>)>>,
        IF env.order = "err" THEN "UnexpectedError" ELSE "AwaitingDnsPropogation")

process_readySkipsLookup(id, task, env) ==
    Out(<<Call("acme_ready.ready", <<task.name>>)>>,
        IF env.ready = "err" THEN "UnexpectedError" ELSE "AwaitingAcmeOrderReady")

process_Order(id, task, env) ==
    LET c1 == <<Call("acme_order.order", <<task.name>>)>>
        c2 == Append(c1, Call("dns_creator.create",
                              <<DelegationDomain, ChallengeName(task.name), <<"Txt", env.order>> >>))
    IN IF env.order = "err" THEN Out(c1, "UnexpectedError")
       ELSE IF env.create = "err" THEN Out(c2, "UnexpectedError")
       ELSE Out(c2, "AwaitingDnsPropogation")

process_Ready(id, task, env) ==
    LET c1 == <<Call("resolver.lookup", <<LookupName(task.name), "TXT">>)>>
        c2 == Append(c1, Call("acme_ready.ready", <<task.name>>))
    IN IF env.lookup = "NoRecordsFound" THEN Out(c1, "AwaitingDnsPropogation")
       ELSE IF env.lookup = "err" THEN Out(c1, "UnexpectedError")
       ELSE IF env.ready = "err" THEN Out(c2, "UnexpectedError")
       ELSE Out(c2, "AwaitingAcmeOrderReady")

process_Certificate(id, task, env) ==
    LET c1 == <<Call("acme_finalize.finalize", <<task.name>>)>>
        c2 == Append(c1, Call("dns_deleter.delete", <<DelegationDomain, ChallengeName(task.name)>>))
        certificate_chain_pem == Finalized[1]
        private_key_pem == Finalized[2]
        c3 == Append(c2, Call("certificate_uploader.upload",
                              <<id, <<private_key_pem, certificate_chain_pem>> >>))
    IN IF env.finalize = "err" THEN Out(c1, "UnexpectedError")
       ELSE IF env.delete = "err" THEN Out(c2, "UnexpectedError")
       ELSE IF env.upload = "err" THEN Out(c3, "UnexpectedError")
       ELSE Out(c3, "Ok")

process(id, task, env) ==
    IF task.action = "Order" THEN process_Order(id, task, env)
    ELSE IF task.action = "Ready" THEN process_Ready(id, task, env)
    ELSE process_Certificate(id, task, env)

\* Everything but the worker.
ovars == <<now, ticks, steps, ROOT_PRINCIPALS, ALLOWED_PRINCIPALS, ID_COUNTER, ID_SEED,
           REGISTRATIONS, NAMES, ENCRYPTED_CERTIFICATES, TASKS, EXPIRATIONS, RETRIES,
           resp, hist>>

\* CanisterDispenser::dispense, first call: dispenseTask.  NoTasksAvailable
\* leaves the worker where it is.
W_dispense ==
    /\ wk.pc = "idle"
    /\ \E a \in dispense_answers(Worker) :
          /\ a.res = "Ok"
          /\ Dispenser_dispense(a)
          /\ wk' = [wk EXCEPT !.pc = "get", !.id = a.id, !.task = NoTask,
                               !.calls = <<>>, !.result = "none"]
    /\ UNCHANGED km

\* CanisterDispenser::dispense, second call: getRegistration for the dispensed
\* id; the task is the registration's name with the action of its state.  A
\* registration that is gone is an error and the worker starts over.
W_get_keepsGoing ==
    /\ wk.pc = "get"
    /\ wk' = [wk EXCEPT !.pc = "process",
                         !.task = [name |-> IF wk.id \in DOMAIN REGISTRATIONS
                                            THEN REGISTRATIONS[wk.id].name ELSE <<>>,
                                   action |-> "Order"]]
    /\ UNCHANGED ovars
    /\ UNCHANGED km

W_get ==
    /\ wk.pc = "get"
    /\ IF get_answer(Worker, wk.id).res = "Ok"
       THEN LET reg == Getter_get(wk.id)
            IN wk' = [wk EXCEPT !.pc = "process",
                                !.task = [name |-> reg.name, action |-> ActionFrom(reg.state)]]
       ELSE wk' = [wk EXCEPT !.pc = "idle"]
    /\ UNCHANGED ovars
    /\ UNCHANGED km

\* CanisterDispenser::dispense, second call, when the query does not get through
\* or its answer cannot be decoded: an error, and the worker starts over.
W_get_fails ==
    /\ wk.pc = "get"
    /\ wk' = [wk EXCEPT !.pc = "idle"]
    /\ UNCHANGED ovars
    /\ UNCHANGED km

\* The upload of the Certificate phase: a substitute answers as env says, the
\* canister uploader as uploadCertificate answers.
UploadOutcome(id, env) ==
    IF env.upload # "canister" THEN env.upload
    ELSE IF upload_answer(Worker, id).res = "Ok" THEN "ok" ELSE "err"

\* Processor::process on the task at hand.  An Ok result ends the round; any
\* other result is reported.
W_process ==
    /\ wk.pc = "process"
    /\ LET out == process(wk.id, wk.task, [wk.env EXCEPT !.upload = UploadOutcome(wk.id, wk.env)])
       IN /\ wk' = [wk EXCEPT !.pc = IF out.result = "Ok" THEN "idle" ELSE "update",
                               !.calls = out.calls, !.result = out.result]
          /\ IF wk.env.upload = "canister" /\ out.result = "Ok"
             THEN Uploader_upload(upload_answer(Worker, wk.id), wk.id,
                                  out.calls[Len(out.calls)].args[2])
             ELSE UNCHANGED ovars
    /\ UNCHANGED km

\* The state a worker reports for a result of process.
StateFor(result) ==
    IF result = "AwaitingDnsPropogation" THEN "PendingChallengeResponse"
    ELSE IF result = "AwaitingAcmeOrderReady" THEN "PendingAcmeApproval"
    ELSE "Failed"

\* Report: updateRegistration with the state for the result ...
W_update ==
    /\ wk.pc = "update"
    /\ LET a == update_answer(Worker, wk.id)
       IN IF a.res # "Ok" THEN wk' = [wk EXCEPT !.pc = "idle"] /\ UNCHANGED ovars
          ELSE /\ Updater_update(a, wk.id, StateFor(wk.result))
               /\ wk' = [wk EXCEPT !.pc = IF wk.result = "UnexpectedError" THEN "idle" ELSE "queue"]
    /\ UNCHANGED km

\* ... and, for the results that wait on the outside world, queueTask to look
\* again after Duration::from(&ProcessError).
W_queue ==
    /\ wk.pc = "queue"
    /\ LET a == queue_answer(Worker, wk.id)
       IN IF a.res # "Ok" THEN UNCHANGED ovars
          ELSE Queuer_queue(a, wk.id, now + PROCESS_ERROR_DELAY)
    /\ wk' = [wk EXCEPT !.pc = "idle"]
    /\ UNCHANGED km

\* The clock in a run with a worker.  The worker polls all the time, so time
\* passes only while it has nothing to do, and not beyond the next due task.
LiveTick ==
    /\ wk.pc = "idle"
    /\ Due(TASKS, now) = {}
    /\ ticks < MaxLiveTicks
    /\ \E d \in LiveTickSteps :
          /\ \A id \in DOMAIN TASKS : now + d <= TASKS[id]
          /\ now' = now + d
    /\ ticks' = ticks + 1
    /\ resp' = Answer("tick", NoId, "Ok")
    /\ UNCHANGED <<steps, ROOT_PRINCIPALS, ALLOWED_PRINCIPALS, ID_COUNTER, ID_SEED,
                   REGISTRATIONS, NAMES, ENCRYPTED_CERTIFICATES,
                   TASKS, EXPIRATIONS, RETRIES, hist, wk, km>>

(***************************************************************************)
(* rotate_idkg_dealing_encryption_keys of the crypto component, as the     *)
(* tests in crypto/src/keygen/tests.rs fix it.                             *)
(***************************************************************************)
\* A key registered for the node: another key, or the node's first local key
\* without or with a timestamp.
OtherKey == 0
FirstKey == 1
RegisteredKeys == {[key |-> OtherKey, timestamp |-> None],
                   [key |-> FirstKey, timestamp |-> None],
                   [key |-> FirstKey, timestamp |-> 0]}
RotateTimes == {TWO_WEEKS - 1, TWO_WEEKS, TWO_WEEKS + 1}

Current(local) == local[Len(local)]
KeyResult(res, key) == [res |-> res, key |-> key]
\* An outcome: the result returned and the local keys afterwards.
Refused(k, res) == [result |-> KeyResult(res, 0), local |-> k.local]
\* The current local key is returned and no key is generated.
Kept_generatesKey(k) == [result |-> KeyResult("Ok", Len(k.local) + 1),
                         local |-> Append(k.local, Len(k.local) + 1)]
Kept(k) == [result |-> KeyResult("Ok", Current(k.local)), local |-> k.local]
\* A new key is generated, made the current local key and returned.
Rotated_returnsOld(k) == [result |-> KeyResult("Ok", Current(k.local)),
                          local |-> Append(k.local, Len(k.local) + 1)]
Rotated(k) == [result |-> KeyResult("Ok", Len(k.local) + 1),
               local |-> Append(k.local, Len(k.local) + 1)]

\* Rotation is enabled for a node that is a member of a subnet with an ECDSA
\* configuration that has key ids and a key rotation period.
KeyRotationEnabled(k) ==
    k.subnet = "member" /\ k.ecdsa = "key_ids" /\ k.period # None

\* Whether the registered key is younger than the rotation period.  The tests
\* step to either side of the period; at the period itself both outcomes are
\* open.
TooRecent(k) ==
    IF k.time < k.registered.timestamp + k.period THEN {TRUE}
    ELSE IF k.time = k.registered.timestamp + k.period THEN {TRUE, FALSE}
    ELSE {FALSE}

rotate_idkg_dealing_encryption_keys_recencyFirst(k) ==
    IF k.registry = "err" THEN {Refused(k, "RegistryError")}
    ELSE IF k.registered.key = Current(k.local) /\ k.registered.timestamp # None
            /\ k.period # None /\ k.time < k.registered.timestamp + k.period
    THEN {Refused(k, "LatestLocalRotationTooRecent")}
    ELSE IF ~KeyRotationEnabled(k) THEN {Refused(k, "KeyRotationNotEnabled")}
    ELSE IF k.registered.key # Current(k.local)
    THEN {[result |-> KeyResult("Ok", Current(k.local)), local |-> k.local]}
    ELSE {Rotated(k)}

\* The tests with rotation not enabled all register the node's local key; with
\* another key registered and rotation not enabled both answers are open.
rotate_idkg_dealing_encryption_keys(k) ==
    IF k.registry = "err" THEN {Refused(k, "RegistryError")}
    ELSE IF k.registered.key # Current(k.local)
    THEN IF KeyRotationEnabled(k) THEN {Kept(k)}
         ELSE {Kept(k), Refused(k, "KeyRotationNotEnabled")}
    ELSE IF ~KeyRotationEnabled(k) THEN {Refused(k, "KeyRotationNotEnabled")}
    ELSE IF k.registered.timestamp = None THEN {Rotated(k)}
    ELSE {IF recent THEN Refused(k, "LatestLocalRotationTooRecent") ELSE Rotated(k) :
             recent \in TooRecent(k)}

\* A call of rotate_idkg_dealing_encryption_keys.
rotate ==
    /\ km.pc = "ready"
    /\ km.calls < MaxRotateCalls
    /\ \E out \in rotate_idkg_dealing_encryption_keys(km) :
          km' = [km EXCEPT !.calls = @ + 1, !.result = out.result, !.local = out.local]
    /\ UNCHANGED ovars
    /\ UNCHANGED wk

(***************************************************************************)
(* The canister clock                                                      *)
(***************************************************************************)
Tick ==
    /\ ticks < MaxTicks
    /\ \E d \in TickSteps : now' = now + d
    /\ ticks' = ticks + 1
    /\ resp' = Answer("tick", NoId, "Ok")
    /\ UNCHANGED <<steps, ROOT_PRINCIPALS, ALLOWED_PRINCIPALS, ID_COUNTER, ID_SEED,
                   REGISTRATIONS, NAMES, ENCRYPTED_CERTIFICATES,
                   TASKS, EXPIRATIONS, RETRIES, hist>>

Next ==
    \/ \E c \in Principals, n \in NameInputs, o \in Canisters : create_registration(c, n, o) /\ UNCHANGED <<wk, km>>
    \/ \E c \in Principals, id \in Ids : get_registration(c, id) /\ UNCHANGED <<wk, km>>
    \/ \E c \in Principals, id \in Ids, s \in UpdateInputs : update_registration(c, id, s) /\ UNCHANGED <<wk, km>>
    \/ \E c \in Principals, id \in Ids, p \in Pairs : upload_certificate(c, id, p) /\ UNCHANGED <<wk, km>>
    \/ \E c \in Principals : export_certificates(c) /\ UNCHANGED <<wk, km>>
    \/ \E c \in Principals, id \in Ids, d \in QueueDelays : queue_task(c, id, now + d) /\ UNCHANGED <<wk, km>>
    \/ \E c \in Principals : dispense_task(c) /\ UNCHANGED <<wk, km>>
    \/ \E c \in Principals : peek_task(c) /\ UNCHANGED <<wk, km>>
    \/ expire_timer /\ UNCHANGED <<wk, km>>
    \/ retry_timer /\ UNCHANGED <<wk, km>>
    \/ \E c \in Principals : list_allowed_principals(c) /\ UNCHANGED <<wk, km>>
    \/ \E c \in Principals, p \in AllowInputs : add_allowed_principal(c, p) /\ UNCHANGED <<wk, km>>
    \/ \E c \in Principals, p \in AllowInputs : rm_allowed_principal(c, p) /\ UNCHANGED <<wk, km>>
    \/ upgrade /\ UNCHANGED <<wk, km>>
    \/ Tick /\ UNCHANGED <<wk, km>>

Spec == Init /\ [][Next]_vars

(***************************************************************************)
(* One round of the worker on its own: the orchestrator holds one          *)
(* registration, in any state, that the worker has just been dispensed;    *)
(* the worker reads it and processes the task, its collaborators           *)
(* (substitutes, as in the tests of work.rs) answering in any way.         *)
(***************************************************************************)
ProcInit ==
    \E seed \in IdSeeds, c \in 1..MaxCreates, name \in ValidNames, state \in States,
       env \in Envs :
       LET id == Hash(seed, c)
           reg == [name |-> name, canister |-> "canister", state |-> state, created_at |-> 0]
       IN
       /\ now = 0 /\ ticks = 0 /\ steps = 0
       /\ ROOT_PRINCIPALS = InitRootPrincipals
       /\ ALLOWED_PRINCIPALS = {Worker}
       /\ ID_COUNTER = c
       /\ ID_SEED = seed
       /\ REGISTRATIONS = Push(Empty, id, reg)
       /\ NAMES = Push(Empty, name, id)
       /\ ENCRYPTED_CERTIFICATES = IF state = "Available" THEN Push(Empty, id, <<"key", "cert">>)
                                   ELSE Empty
       /\ TASKS = Empty
       /\ EXPIRATIONS = IF state = "Available" THEN Empty
                        ELSE Push(Empty, id, REGISTRATION_EXPIRATION_TTL)
       /\ RETRIES = Push(Empty, id, IN_PROGRESS_TTL)
       /\ resp = Answer("dispense", id, "Ok")
       /\ hist = [x \in Ids |-> IF x = id
                                 THEN [createdAt |-> 0, dispensedAt |-> 0, quiet |-> TRUE,
                                       rearmed |-> FALSE, updated |-> state # "PendingOrder"]
                                 ELSE NoHist]
       /\ wk = [pc |-> "get", id |-> id, task |-> NoTask, env |-> env,
                calls |-> <<>>, result |-> "none"]
       /\ km = NoKeys

ProcNext == W_get \/ W_process

ProcSpec == ProcInit /\ [][ProcNext]_vars

(***************************************************************************)
(* The key manager on its own, set up as in the tests: one local iDKG      *)
(* dealing encryption key, any registry contents, any of the tested times. *)
(***************************************************************************)
KeyInit ==
    /\ now = 0 /\ ticks = 0 /\ steps = 0
    /\ ROOT_PRINCIPALS = InitRootPrincipals
    /\ ALLOWED_PRINCIPALS = {}
    /\ ID_COUNTER = 0
    /\ ID_SEED \in IdSeeds
    /\ REGISTRATIONS = Empty /\ NAMES = Empty /\ ENCRYPTED_CERTIFICATES = Empty
    /\ TASKS = Empty /\ EXPIRATIONS = Empty /\ RETRIES = Empty
    /\ resp = Answer("init", NoId, "Ok")
    /\ hist = [x \in Ids |-> NoHist]
    /\ wk = NoWorker
    /\ \E registry \in {"ok", "err"}, subnet \in {"none", "other", "member"},
          ecdsa \in {"none", "no_key_ids", "key_ids"}, period \in {None, TWO_WEEKS},
          registered \in RegisteredKeys, time \in RotateTimes :
          km = [pc |-> "ready", registry |-> registry, subnet |-> subnet, ecdsa |-> ecdsa,
                period |-> period, registered |-> registered, time |-> time,
                local |-> <<FirstKey>>, calls |-> 0, result |-> KeyResult("none", 0)]

KeyNext == rotate

KeySpec == KeyInit /\ [][KeyNext]_vars

(***************************************************************************)
(* The orchestrator with one worker that runs its loop for ever, every     *)
(* collaborator answering well, and the issuer's API creating and queueing *)
(* registrations.                                                          *)
(***************************************************************************)
LiveInit ==
    /\ now = 0 /\ ticks = 0 /\ steps = 0
    /\ ROOT_PRINCIPALS = InitRootPrincipals
    /\ ALLOWED_PRINCIPALS = {Worker}
    /\ ID_COUNTER = 0
    /\ ID_SEED \in IdSeeds
    /\ REGISTRATIONS = Empty /\ NAMES = Empty /\ ENCRYPTED_CERTIFICATES = Empty
    /\ TASKS = Empty /\ EXPIRATIONS = Empty /\ RETRIES = Empty
    /\ resp = Answer("init", NoId, "Ok")
    /\ hist = [x \in Ids |-> NoHist]
    /\ wk = [NoWorker EXCEPT !.pc = "idle", !.env = AllOk]
    /\ km = NoKeys

\* A caller may queue a registration that was never scheduled, once.
first_queue(id) ==
    /\ id \notin DOMAIN TASKS
    /\ hist[id].dispensedAt = None
    /\ queue_task(Worker, id, now)
    /\ UNCHANGED <<wk, km>>

LiveNext ==
    \/ \E n \in LiveNames, o \in Canisters : create_registration(Worker, n, o) /\ UNCHANGED <<wk, km>>
    \/ \E id \in Ids : first_queue(id)
    \/ expire_timer /\ UNCHANGED <<wk, km>>
    \/ retry_timer /\ UNCHANGED <<wk, km>>
    \/ W_dispense
    \/ W_get
    \/ W_process
    \/ W_update
    \/ W_queue
    \/ LiveTick

LiveSpec ==
    /\ LiveInit /\ [][LiveNext]_vars
    /\ WF_vars(W_dispense) /\ WF_vars(W_get) /\ WF_vars(W_process)
    /\ WF_vars(W_update) /\ WF_vars(W_queue)
    /\ WF_vars(expire_timer /\ UNCHANGED <<wk, km>>) /\ WF_vars(retry_timer /\ UNCHANGED <<wk, km>>)
    /\ WF_vars(LiveTick)

(***************************************************************************)
(* The same, with a collaborator of the worker that fails every time: the  *)
(* worker reports Failed and the orchestrator retries.                     *)
(***************************************************************************)
RetryInit ==
    /\ now = 0 /\ ticks = 0 /\ steps = 0
    /\ ROOT_PRINCIPALS = InitRootPrincipals
    /\ ALLOWED_PRINCIPALS = {Worker}
    /\ ID_COUNTER = 0
    /\ ID_SEED \in IdSeeds
    /\ REGISTRATIONS = Empty /\ NAMES = Empty /\ ENCRYPTED_CERTIFICATES = Empty
    /\ TASKS = Empty /\ EXPIRATIONS = Empty /\ RETRIES = Empty
    /\ resp = Answer("init", NoId, "Ok")
    /\ hist = [x \in Ids |-> NoHist]
    /\ \E env \in FailingEnvs : wk = [NoWorker EXCEPT !.pc = "idle", !.env = env]
    /\ km = NoKeys

RetryNext ==
    \/ \E n \in LiveNames, o \in Canisters : create_registration(Worker, n, o) /\ UNCHANGED <<wk, km>>
    \/ \E id \in Ids : first_queue(id)
    \/ expire_timer /\ UNCHANGED <<wk, km>>
    \/ retry_timer /\ UNCHANGED <<wk, km>>
    \/ W_dispense
    \/ W_get
    \/ W_process
    \/ W_update
    \/ W_queue
    \/ LiveTick

RetrySpec ==
    /\ RetryInit /\ [][RetryNext]_vars
    /\ WF_vars(W_dispense) /\ WF_vars(W_get) /\ WF_vars(W_process)
    /\ WF_vars(W_update) /\ WF_vars(W_queue)
    /\ WF_vars(expire_timer /\ UNCHANGED <<wk, km>>) /\ WF_vars(retry_timer /\ UNCHANGED <<wk, km>>)
    /\ WF_vars(LiveTick)

(***************************************************************************)
(* The worker beside other callers: between its dispenseTask and its       *)
(* getRegistration the timers may run, time may pass, another worker may   *)
(* report a state for the same id, a root may take the worker off the      *)
(* allowlist, and the query may fail on its way.                           *)
(***************************************************************************)
RaceInit ==
    /\ now = 0 /\ ticks = 0 /\ steps = 0
    /\ ROOT_PRINCIPALS = InitRootPrincipals
    /\ ALLOWED_PRINCIPALS = {Worker}
    /\ ID_COUNTER = 0
    /\ ID_SEED \in IdSeeds
    /\ REGISTRATIONS = Empty /\ NAMES = Empty /\ ENCRYPTED_CERTIFICATES = Empty
    /\ TASKS = Empty /\ EXPIRATIONS = Empty /\ RETRIES = Empty
    /\ resp = Answer("init", NoId, "Ok")
    /\ hist = [x \in Ids |-> NoHist]
    /\ wk = [NoWorker EXCEPT !.pc = "idle", !.env = AllOk]
    /\ km = NoKeys

\* Another worker reports a state for the id between the two calls.
other_update(s) ==
    /\ wk.pc = "get"
    /\ update_registration(Worker, wk.id, s)
    /\ UNCHANGED <<wk, km>>

RaceNext ==
    \/ \E n \in LiveNames, o \in Canisters : create_registration(Worker, n, o) /\ UNCHANGED <<wk, km>>
    \/ \E id \in Ids : first_queue(id)
    \/ \E s \in UpdateInputs : other_update(s)
    \/ \E c \in ROOT_PRINCIPALS : rm_allowed_principal(c, Worker) /\ UNCHANGED <<wk, km>>
    \/ expire_timer /\ UNCHANGED <<wk, km>>
    \/ retry_timer /\ UNCHANGED <<wk, km>>
    \/ Tick /\ UNCHANGED <<wk, km>>
    \/ W_dispense
    \/ W_get
    \/ W_get_fails
    \/ W_process
    \/ W_update
    \/ W_queue

RaceSpec == RaceInit /\ [][RaceNext]_vars

(***************************************************************************)
(* Properties                                                              *)
(***************************************************************************)
TenMinutes == 10 * 60
SixHours == 6 * 3600

\* The step is a call or timer run of the given kind that changed a structure.
Acted(op) == steps' # steps /\ resp'.op = op

InBoth(id) == id \in DOMAIN TASKS /\ id \in DOMAIN RETRIES
StateOf(id) == REGISTRATIONS[id].state
Leased(id) == hist[id].dispensedAt # None /\ now < hist[id].dispensedAt + TenMinutes

\* C1, as stated: no registration id is in Tasks and in Retries at the same time.
C1_NeverInTasksAndRetries == \A id \in Ids : ~InBoth(id)

\* C1, amended: an id comes to be in both Tasks and Retries only by a queueTask
\* for that id or an updateRegistration(id, Failed); dispenseTask and the retry
\* sweep move the id they handle from one queue to the other.
C1_InBothOnlyByQueueOrFailed ==
    [][\A id \in Ids :
          (~InBoth(id) /\ InBoth(id)') =>
             /\ resp'.id = id
             /\ \/ resp'.op = "queue"
                \/ resp'.op = "update" /\ REGISTRATIONS'[id].state = "Failed"]_vars

C1_Witness ==
    \E id \in Ids : InBoth(id) /\ resp = Answer("queue", id, "Ok")

\* C2, as stated: an id dispensed at time t is not returned by any dispenseTask
\* before t + 10 min, whatever other calls are made in between.
C2_NoRedispenseWithinLease ==
    [][\A id \in Ids :
          (steps' # steps /\ resp' = Answer("dispense", id, "Ok")) =>
             (hist[id].dispensedAt = None \/ now >= hist[id].dispensedAt + TenMinutes)]_vars

\* C2, amended: an id dispensed at time t is not returned by a dispenseTask
\* before t + 10 min unless a queueTask for it or an updateRegistration(id, Failed)
\* was made since that dispense.
C2_NoRedispenseUnlessRearmed ==
    [][\A id \in Ids :
          (steps' # steps /\ resp' = Answer("dispense", id, "Ok")) =>
             \/ hist[id].dispensedAt = None
             \/ now >= hist[id].dispensedAt + TenMinutes
             \/ hist[id].rearmed]_vars

\* A leased id that nothing re-armed, while a dispenseTask at this moment hands out another id.
C2_Witness ==
    \E id \in Ids, c \in ALLOWED_PRINCIPALS :
       /\ Leased(id) /\ ~hist[id].rearmed
       /\ \E a \in dispense_answers(c) : a.res = "Ok" /\ a.id # id

\* C3: a successful createRegistration at time now leaves the registration stored in
\* PendingOrder, the name index entry, an Expirations entry at now + 6 h and a Tasks
\* entry at now, so that a dispenseTask with no other due work returns the new id.
C3_CreateSchedulesTask ==
    (resp.op = "create") =>
       LET id == resp.id
       IN /\ id \in DOMAIN REGISTRATIONS
          /\ StateOf(id) = "PendingOrder"
          /\ REGISTRATIONS[id].name \in DOMAIN NAMES
          /\ NAMES[REGISTRATIONS[id].name] = id
          /\ id \in DOMAIN EXPIRATIONS /\ EXPIRATIONS[id] = now + SixHours
          /\ id \in DOMAIN TASKS /\ TASKS[id] = now
          /\ \A c \in ALLOWED_PRINCIPALS :
                Due(TASKS, now) = {id} => dispense_answers(c) = {Answer("dispense", id, "Ok")}

\* C4: every stored registration that is not Available has an entry in Tasks or in Retries.
C4_PendingHasWork ==
    \A id \in DOMAIN REGISTRATIONS :
       StateOf(id) # "Available" => (id \in DOMAIN TASKS \/ id \in DOMAIN RETRIES)

\* C5: an Available registration has no entry in Tasks and none in Retries.
C5_AvailableHasNoWork ==
    \A id \in DOMAIN REGISTRATIONS :
       StateOf(id) = "Available" => (id \notin DOMAIN TASKS /\ id \notin DOMAIN RETRIES)

\* C6: dispenseTask at time now, when some Tasks entry is due, removes from Tasks an
\* entry with the smallest due-time, puts that id into Retries at now + 10 min in the
\* same step and returns it; when no entry is due it answers NoTasksAvailable and
\* changes neither queue, so a task queued for a later time is not handed out early.
C6_DispenseLeasesHead ==
    /\ [](\A c \in ALLOWED_PRINCIPALS :
             Due(TASKS, now) = {} =>
                dispense_answers(c) = {Answer("dispense", NoId, "NoTasksAvailable")})
    /\ [][/\ Acted("dispense") =>
                LET id == resp'.id
                IN /\ resp'.res = "Ok"
                   /\ id \in DOMAIN TASKS
                   /\ TASKS[id] <= now
                   /\ \A y \in DOMAIN TASKS : TASKS[id] <= TASKS[y]
                   /\ TASKS' = Remove(TASKS, id)
                   /\ RETRIES' = Push(RETRIES, id, now + TenMinutes)
          /\ \A c \in Principals :
                (dispense_task(c) /\ Due(TASKS, now) = {}) => UNCHANGED <<TASKS, RETRIES>>]_vars

\* A dispense has just leased an id and left a task queued for a later time alone.
C6_Witness ==
    /\ resp.op = "dispense"
    /\ resp.id \in DOMAIN RETRIES /\ RETRIES[resp.id] = now + TenMinutes
    /\ \E y \in DOMAIN TASKS : TASKS[y] > now

\* C7: an id dispensed at time t that no call names afterwards stays in Retries through
\* every retry sweep run before t + 10 min; a retry sweep run at or after t + 10 min moves
\* it from Retries into Tasks with the sweep time as due-time, and a dispenseTask that
\* finds it alone at the head of Tasks returns it.
C7_LeaseRecovery ==
    [][/\ Acted("retry") =>
             \A id \in Ids :
                (hist[id].dispensedAt # None /\ hist[id].quiet /\ id \in DOMAIN RETRIES) =>
                   IF now >= hist[id].dispensedAt + TenMinutes
                   THEN /\ id \notin DOMAIN RETRIES'
                        /\ id \in DOMAIN TASKS' /\ TASKS'[id] = now
                   ELSE /\ id \in DOMAIN RETRIES' /\ RETRIES'[id] = RETRIES[id]
                        /\ id \notin DOMAIN TASKS'
       /\ Acted("dispense") =>
             \A id \in Ids :
                (hist[id].quiet /\ Heads(TASKS) = {id}) => resp' = Answer("dispense", id, "Ok")]_vars

\* The sweep has just restored an untouched lease that had run out.
C7_Witness ==
    /\ resp.op = "retry"
    /\ \E id \in Ids :
          /\ hist[id].dispensedAt # None /\ hist[id].quiet
          /\ now >= hist[id].dispensedAt + TenMinutes
          /\ id \in DOMAIN TASKS /\ TASKS[id] = now
          /\ id \notin DOMAIN RETRIES

\* C8: an expiry run at time now removes every id whose Expirations due-time is <= now
\* from the registration store, the name index, Tasks, Retries and Expirations.
C8_ExpireRemovesEverywhere ==
    [][Acted("expire") =>
          \A id \in Due(EXPIRATIONS, now) :
             /\ id \notin DOMAIN REGISTRATIONS'
             /\ \A n \in DOMAIN NAMES' : NAMES'[n] # id
             /\ id \notin DOMAIN TASKS'
             /\ id \notin DOMAIN RETRIES'
             /\ id \notin DOMAIN EXPIRATIONS']_vars

\* C9: a registration created at time T whose state is never written stays in the store
\* at every time before T + 6 h, and the first expiry run at or after T + 6 h removes it
\* from the registration store, the name index, Tasks and Retries; an expiry run never
\* removes a registration whose Expirations due-time is later than now.
C9_ExpiresSixHoursAfterCreation ==
    [][\A id \in Ids :
          /\ (id \in DOMAIN REGISTRATIONS /\ id \notin DOMAIN REGISTRATIONS') =>
                /\ Acted("expire")
                /\ id \in DOMAIN EXPIRATIONS /\ EXPIRATIONS[id] <= now
          /\ (id \in DOMAIN REGISTRATIONS /\ ~hist[id].updated) =>
                /\ id \notin DOMAIN REGISTRATIONS' => now >= hist[id].createdAt + SixHours
                /\ (Acted("expire") /\ now >= hist[id].createdAt + SixHours) =>
                      /\ id \notin DOMAIN REGISTRATIONS'
                      /\ \A n \in DOMAIN NAMES' : NAMES'[n] # id
                      /\ id \notin DOMAIN TASKS'
                      /\ id \notin DOMAIN RETRIES']_vars

\* C10: an Available registration has no entry in Expirations, so no expiry run
\* removes it.
C10_AvailableNotInExpirations ==
    \A id \in DOMAIN REGISTRATIONS :
       StateOf(id) = "Available" => id \notin DOMAIN EXPIRATIONS

\* C11: an uploadCertificate(id, pair) that answers Ok stores the pair under id and
\* makes the registration Available in the same step, so that a getRegistration(id)
\* made right after it answers Ok with state Available.
C11_UploadMakesAvailable ==
    /\ [](resp.op = "upload" =>
            /\ resp.res = "Ok"
            /\ resp.id \in DOMAIN ENCRYPTED_CERTIFICATES
            /\ resp.id \in DOMAIN REGISTRATIONS
            /\ \A c \in ALLOWED_PRINCIPALS :
                  /\ get_answer(c, resp.id) = Answer("get", resp.id, "Ok")
                  /\ Getter_get(resp.id).state = "Available")
    /\ [][\A id \in Ids : \A p \in Pairs :
             (Acted("upload") /\ resp'.id = id /\ (\E c \in Principals : upload_certificate(c, id, p))) =>
                /\ id \in DOMAIN REGISTRATIONS
                /\ ENCRYPTED_CERTIFICATES' = Push(ENCRYPTED_CERTIFICATES, id, p)
                /\ REGISTRATIONS'[id].state = "Available"]_vars

\* An upload has just answered Ok: the pair is stored and the registration is Available.
C11_Witness ==
    /\ resp = Answer("upload", resp.id, "Ok")
    /\ resp.id \in DOMAIN REGISTRATIONS
    /\ StateOf(resp.id) = "Available"
    /\ ENCRYPTED_CERTIFICATES[resp.id] \in Pairs

\* C12: exportCertificates by an allowed caller returns exactly one triple (name, id,
\* pair) for every stored registration that is Available, with the pair stored under
\* that id, and no triple for any id that is not Available or not in the store.
C12_ExportsEveryAvailable ==
    \A c \in ALLOWED_PRINCIPALS :
       /\ export_answer(c).res = "Ok"
       /\ \A id \in DOMAIN REGISTRATIONS :
             StateOf(id) = "Available" =>
                /\ id \in DOMAIN ENCRYPTED_CERTIFICATES
                /\ {tr \in Exporter_export : tr[2] = id}
                      = {<<REGISTRATIONS[id].name, id, ENCRYPTED_CERTIFICATES[id]>>}
       /\ \A tr \in Exporter_export :
             tr[2] \in DOMAIN REGISTRATIONS /\ StateOf(tr[2]) = "Available"

\* The stored registrations of a name that are not Available.
Pending(name) ==
    {id \in DOMAIN REGISTRATIONS : REGISTRATIONS[id].name = name /\ StateOf(id) # "Available"}

\* C13: createRegistration for a name that has a stored registration which is not
\* Available answers Duplicate with the id of that registration and changes nothing
\* (store, name index, Tasks, Retries, Expirations, id counter); a create of the name
\* just created answers Duplicate with the id just returned.
C13_DuplicateCreate ==
    /\ [](\A c \in ALLOWED_PRINCIPALS : \A n \in ValidNames :
            Pending(n) # {} =>
               /\ create_answer(c, n).res = "Duplicate"
               /\ create_answer(c, n).id \in Pending(n))
    /\ [](\A c \in ALLOWED_PRINCIPALS :
            resp.op = "create" =>
               create_answer(c, REGISTRATIONS[resp.id].name) = Answer("create", resp.id, "Duplicate"))
    /\ [][\A c \in Principals, n \in ValidNames, o \in Canisters :
             (Pending(n) # {} /\ create_registration(c, n, o)) => UNCHANGED vars]_vars

\* C14: at most one stored registration per name is not Available.
C14_OnePendingPerName ==
    \A n \in ValidNames : Cardinality(Pending(n)) <= 1

\* C15: every stored registration has its name in the name index, pointing at its own
\* id, and every entry of the name index points at a stored id.
C15_NameIndexMatchesStore ==
    /\ \A id \in DOMAIN REGISTRATIONS :
          /\ REGISTRATIONS[id].name \in DOMAIN NAMES
          /\ NAMES[REGISTRATIONS[id].name] = id
    /\ \A n \in DOMAIN NAMES : NAMES[n] \in DOMAIN REGISTRATIONS

\* The changes of state the specification allows.
Allowed(old, new) ==
    \/ old = "PendingOrder" /\ new = "PendingChallengeResponse"
    \/ old = "PendingChallengeResponse" /\ new = "PendingAcmeApproval"
    \/ old = "PendingAcmeApproval" /\ new = "Available"
    \/ old \in {"PendingOrder", "PendingChallengeResponse", "PendingAcmeApproval"} /\ new = "Failed"
    \/ old = "Failed" /\ new = "PendingOrder"

\* C16: every change of the state of a stored registration follows PendingOrder ->
\* PendingChallengeResponse -> PendingAcmeApproval -> Available, a pending state ->
\* Failed, or Failed -> PendingOrder; the state of an Available registration never changes.
C16_StateChangesFollowDag ==
    [][\A id \in (DOMAIN REGISTRATIONS) \cap (DOMAIN REGISTRATIONS') :
          REGISTRATIONS'[id].state # REGISTRATIONS[id].state =>
             Allowed(REGISTRATIONS[id].state, REGISTRATIONS'[id].state)]_vars

\* The business operations a caller may invoke, with every input.
Business(c) ==
    \/ \E n \in NameInputs, o \in Canisters : create_registration(c, n, o)
    \/ \E id \in Ids : get_registration(c, id)
    \/ \E id \in Ids, s \in UpdateInputs : update_registration(c, id, s)
    \/ \E id \in Ids, p \in Pairs : upload_certificate(c, id, p)
    \/ export_certificates(c)
    \/ \E id \in Ids, d \in QueueDelays : queue_task(c, id, now + d)
    \/ dispense_task(c)
    \/ peek_task(c)

\* C17: a caller that is not in AllowedPrincipals gets Unauthorized, with no stored
\* data, from every business operation, and the call leaves the whole state unchanged.
C17_UnauthorizedChangesNothing ==
    /\ [](\A c \in Principals \ ALLOWED_PRINCIPALS :
            /\ \A n \in NameInputs : create_answer(c, n) = Answer("create", NoId, "Unauthorized")
            /\ \A id \in Ids :
                  /\ get_answer(c, id) = Answer("get", NoId, "Unauthorized")
                  /\ update_answer(c, id) = Answer("update", NoId, "Unauthorized")
                  /\ upload_answer(c, id) = Answer("upload", NoId, "Unauthorized")
                  /\ queue_answer(c, id) = Answer("queue", NoId, "Unauthorized")
            /\ export_answer(c) = Answer("export", NoId, "Unauthorized")
            /\ dispense_answers(c) = {Answer("dispense", NoId, "Unauthorized")}
            /\ peek_answers(c) = {Answer("peek", NoId, "Unauthorized")})
    /\ [][\A c \in Principals \ ALLOWED_PRINCIPALS : Business(c) => UNCHANGED vars]_vars

\* A principal that was allowed and is no longer asks while registrations and due
\* tasks are stored.
C17_Witness ==
    /\ "worker" \notin ALLOWED_PRINCIPALS
    /\ DOMAIN REGISTRATIONS # {}
    /\ Due(TASKS, now) # {}
    /\ dispense_answers("worker") = {Answer("dispense", NoId, "Unauthorized")}

\* C18: listing and changing the allowlist is authorized against RootPrincipals only:
\* a caller outside RootPrincipals, allowed or not, gets Unauthorized and changes
\* nothing, and no operation changes RootPrincipals.
C18_AllowlistNeedsRoot ==
    /\ [](\A c \in Principals \ ROOT_PRINCIPALS :
            modify_answer(c) = "Unauthorized" /\ list_answer(c) = "Unauthorized")
    /\ [][/\ ROOT_PRINCIPALS' = ROOT_PRINCIPALS
          /\ \A c \in Principals \ ROOT_PRINCIPALS : \A p \in AllowInputs :
                (\/ add_allowed_principal(c, p)
                 \/ rm_allowed_principal(c, p)
                 \/ list_allowed_principals(c)) => UNCHANGED vars]_vars

\* An allowed principal that is no root asks to change the allowlist.
C18_Witness ==
    \E c \in ALLOWED_PRINCIPALS \ ROOT_PRINCIPALS :
       /\ modify_answer(c) = "Unauthorized"
       /\ DOMAIN REGISTRATIONS # {}

FirstByKey ==
    CHOOSE x \in Heads(TASKS) : \A y \in Heads(TASKS) : x = y \/ IdLess(x, y)

\* C20: among the Tasks entries that are due, dispenseTask returns the one with the
\* smallest due-time and, when several share it, the one with the smallest id.
C20_TiesBrokenByKey ==
    \A c \in ALLOWED_PRINCIPALS :
       Due(TASKS, now) # {} => dispense_answers(c) = {Answer("dispense", FirstByKey, "Ok")}

C22_QueueSetsDueTime ==
    /\ [](\A c \in ALLOWED_PRINCIPALS : \A id \in DOMAIN REGISTRATIONS :
            StateOf(id) # "Available" => queue_answer(c, id).res = "Ok")
    /\ [][\A c \in Principals : \A id \in Ids : \A d \in QueueDelays :
            (Acted("queue") /\ queue_task(c, id, now + d)) =>
               /\ resp'.res = "Ok" /\ resp'.id = id
               /\ id \in DOMAIN REGISTRATIONS /\ StateOf(id) # "Available"
               /\ DOMAIN TASKS' = DOMAIN TASKS \cup {id}
               /\ TASKS'[id] = now + d
               /\ \A y \in DOMAIN TASKS : y # id => TASKS'[y] = TASKS[y]]_vars

\* A queueTask has set a later due-time for its id while another id keeps its own.
C22_Witness ==
    /\ resp.op = "queue" /\ resp.res = "Ok"
    /\ resp.id \in DOMAIN TASKS /\ TASKS[resp.id] = now + TIMER_INTERVAL
    /\ \E y \in DOMAIN TASKS : y # resp.id /\ TASKS[y] # TASKS[resp.id]

Created == {id \in Ids : hist[id].createdAt # None}

C25_HappyPath ==
    /\ \A id \in Ids :
          (hist[id].createdAt = 0 /\ ~hist[id].updated) ~>
             (\E e \in Exporter_export : e[2] = id /\ e[3] = <<"key", "cert">>)
    /\ [][\A id \in DOMAIN REGISTRATIONS :
            id \notin DOMAIN REGISTRATIONS' => id \in DOMAIN ENCRYPTED_CERTIFICATES]_vars

\* The worker has processed a task of the given action.
Processed(action) == wk.result # "none" /\ wk.task.action = action

\* C26: the action is a function of the registration state alone: Failed and
\* PendingOrder give Order, PendingChallengeResponse gives Ready,
\* PendingAcmeApproval gives Certificate and Available gives Order; and the task
\* a worker gets from dispense has the name and the action of the state that
\* getRegistration returns for the dispensed id.
C26_ActionFromState ==
    /\ [](/\ ActionFrom("Failed") = "Order"
          /\ ActionFrom("PendingOrder") = "Order"
          /\ ActionFrom("PendingChallengeResponse") = "Ready"
          /\ ActionFrom("PendingAcmeApproval") = "Certificate"
          /\ ActionFrom("Available") = "Order")
    /\ [][W_get =>
            LET reg == REGISTRATIONS[wk.id]
            IN /\ wk'.pc = "process"
               /\ wk'.id = wk.id
               /\ wk'.task.name = reg.name
               /\ reg.state \in {"Failed", "PendingOrder", "Available"} => wk'.task.action = "Order"
               /\ reg.state = "PendingChallengeResponse" => wk'.task.action = "Ready"
               /\ reg.state = "PendingAcmeApproval" => wk'.task.action = "Certificate"]_vars

\* The worker holds an Order task for a registration that is Available.
C26_Witness ==
    /\ wk.pc = "process"
    /\ StateOf(wk.id) = "Available"
    /\ wk.task = [name |-> REGISTRATIONS[wk.id].name, action |-> "Order"]

\* C27: the Order phase calls acme order(name) once and then, with the key it
\* returned, dns create(delegation domain, "_acme-challenge." + name, TXT(key))
\* once, and nothing else; it returns AwaitingDnsPropogation when both succeed
\* and never Ok.  If acme order fails, dns create is not called and the result is
\* UnexpectedError (as it is when dns create fails).
C27_OrderPhase ==
    Processed("Order") =>
       LET name == wk.task.name
           order == [fn |-> "acme_order.order", args |-> <<name>>]
           create == [fn |-> "dns_creator.create",
                      args |-> <<DelegationDomain, <<"_acme-challenge">> \o name,
                                 <<"Txt", wk.env.order>> >>]
       IN /\ wk.result # "Ok"
          /\ wk.env.order = "err" => wk.calls = <<order>> /\ wk.result = "UnexpectedError"
          /\ wk.env.order # "err" =>
                /\ wk.calls = <<order, create>>
                /\ wk.result = IF wk.env.create = "ok" THEN "AwaitingDnsPropogation"
                                ELSE "UnexpectedError"

\* An Order task went through both calls, the record carrying the second key.
C27_Witness ==
    /\ Processed("Order")
    /\ wk.result = "AwaitingDnsPropogation"
    /\ Len(wk.calls) = 2
    /\ wk.calls[2].args[3] = <<"Txt", "token2">>

\* C28: the Ready phase looks up the TXT record of
\* "_acme-challenge." + name + "." + delegation domain.  No records found gives
\* AwaitingDnsPropogation and any other resolver error UnexpectedError, both
\* without a call of acme ready; when the lookup succeeds it calls acme
\* ready(name) once and returns AwaitingAcmeOrderReady (UnexpectedError if that
\* call fails).  It makes no other call.
C28_ReadyPhase ==
    Processed("Ready") =>
       LET name == wk.task.name
           lookup == [fn |-> "resolver.lookup",
                      args |-> <<<<"_acme-challenge">> \o name \o DelegationDomain, "TXT">>]
           ready == [fn |-> "acme_ready.ready", args |-> <<name>>]
       IN /\ wk.result # "Ok"
          /\ wk.env.lookup = "NoRecordsFound" =>
                wk.calls = <<lookup>> /\ wk.result = "AwaitingDnsPropogation"
          /\ wk.env.lookup = "err" => wk.calls = <<lookup>> /\ wk.result = "UnexpectedError"
          /\ wk.env.lookup = "ok" =>
                /\ wk.calls = <<lookup, ready>>
                /\ wk.result = IF wk.env.ready = "ok" THEN "AwaitingAcmeOrderReady"
                                ELSE "UnexpectedError"

\* A Ready task found its record and marked the order ready.
C28_Witness ==
    /\ Processed("Ready")
    /\ wk.result = "AwaitingAcmeOrderReady"
    /\ Len(wk.calls) = 2
    /\ wk.calls[1].args[1] = <<"_acme-challenge">> \o REGISTRATIONS[wk.id].name \o DelegationDomain

\* C29: the Certificate phase calls acme finalize, then dns delete, then
\* upload(id, Pair(private key, certificate chain)), each at most once and in
\* that order, and returns Ok exactly when all three succeed; if finalize or dns
\* delete fails the result is UnexpectedError and upload is not called; and
\* process returns Ok for no other action.
C29_CertificatePhase ==
    /\ wk.result = "Ok" => wk.task.action = "Certificate"
    /\ Processed("Certificate") =>
          LET name == wk.task.name
              finalize == [fn |-> "acme_finalize.finalize", args |-> <<name>>]
              delete == [fn |-> "dns_deleter.delete",
                         args |-> <<DelegationDomain, <<"_acme-challenge">> \o name>>]
              upload == [fn |-> "certificate_uploader.upload",
                         args |-> <<wk.id, <<"key", "cert">> >>]
              allThree == wk.env.finalize = "ok" /\ wk.env.delete = "ok" /\ wk.env.upload = "ok"
          IN /\ wk.result = "Ok" <=> allThree
             /\ ~allThree => wk.result = "UnexpectedError"
             /\ wk.env.finalize = "err" => wk.calls = <<finalize>>
             /\ (wk.env.finalize = "ok" /\ wk.env.delete = "err") => wk.calls = <<finalize, delete>>
             /\ (wk.env.finalize = "ok" /\ wk.env.delete = "ok") =>
                   wk.calls = <<finalize, delete, upload>>

\* A Certificate task made its three calls and returned Ok.
C29_Witness ==
    /\ Processed("Certificate")
    /\ Len(wk.calls) = 3
    /\ wk.result = "Ok"

RotationPossible ==
    km.registry = "ok" /\ km.subnet = "member" /\ km.ecdsa = "key_ids" /\ km.period # None

\* The keys in a sequence of local keys.
KeysOf(local) == {local[i] : i \in DOMAIN local}

\* C31: when key rotation is enabled and the registry holds the node's current
\* local key with no timestamp, or with a timestamp older than the rotation
\* period, rotate_idkg_dealing_encryption_keys generates a key that differs from
\* the previous one (and from every earlier local key), returns it, makes it the
\* current local key, and raises the number of local keys by one, from 1 to 2.
C31_RotationGeneratesKey ==
    [][(/\ rotate /\ RotationPossible
        /\ km.registered.key = km.local[Len(km.local)]
        /\ \/ km.registered.timestamp = None
           \/ km.time - km.registered.timestamp > km.period)
          => /\ km'.result.res = "Ok"
             /\ km'.result.key # km.local[Len(km.local)]
             /\ km'.result.key \notin KeysOf(km.local)
             /\ km'.local[Len(km'.local)] = km'.result.key
             /\ km'.local = Append(km.local, km'.result.key)
             /\ Len(km.local) = 1 /\ Len(km'.local) = 2]_vars

\* A registered key older than the period has been rotated: two local keys, the
\* new one current and returned.
C31_Witness ==
    /\ km.calls = 1
    /\ km.registered = [key |-> FirstKey, timestamp |-> 0] /\ km.time = TWO_WEEKS + 1
    /\ km.result.res = "Ok" /\ km.result.key # FirstKey
    /\ km.local = <<FirstKey, km.result.key>>

\* The local keys that have not been registered: those after the registered key,
\* or all of them when the registered key is none of the node's.
Unregistered ==
    {km.local[i] : i \in {j \in DOMAIN km.local :
                             \A h \in DOMAIN km.local : km.local[h] = km.registered.key => h < j}}

C33_RetrySweepFrame ==
    [][/\ Acted("retry") =>
             LET due == {id \in DOMAIN RETRIES : RETRIES[id] <= now}
             IN /\ due # {}
                /\ DOMAIN RETRIES' = (DOMAIN RETRIES) \ due
                /\ \A id \in DOMAIN RETRIES' : RETRIES'[id] = RETRIES[id] /\ RETRIES[id] > now
                /\ DOMAIN TASKS' = (DOMAIN TASKS) \cup due
                /\ \A id \in due : TASKS'[id] = now
                /\ \A id \in (DOMAIN TASKS) \ due : TASKS'[id] = TASKS[id]
       /\ (retry_timer /\ \A id \in DOMAIN RETRIES : RETRIES[id] > now) =>
             UNCHANGED <<TASKS, RETRIES>>]_vars

\* A sweep has just moved one id into Tasks at the sweep time and left another in
\* Retries for later.
C33_Witness ==
    /\ resp.op = "retry"
    /\ \E x \in DOMAIN TASKS : \E y \in DOMAIN RETRIES :
          /\ TASKS[x] = now /\ x \notin DOMAIN RETRIES
          /\ hist[x].createdAt < now
          /\ RETRIES[y] > now

\* The worker holds an Order task for the id: it is processing it, or about to
\* report its outcome.
OrderTaskFor(id) ==
    wk.pc \in {"process", "update"} /\ wk.id = id /\ wk.task.action = "Order"

\* C34: updateRegistration(id, Failed) on a stored registration at time now sets
\* its state to Failed and puts id into Retries at now + retry_backoff, a fixed
\* positive delay; and while the clock runs, a Failed registration comes to be
\* dispensed with action Order again (through the retry sweep after that
\* due-time), unless it expires first.
C34_FailedIsRetried ==
    /\ [](RETRY_BACKOFF > 0 /\ ActionFrom("Failed") = "Order")
    /\ [][\A id \in DOMAIN REGISTRATIONS :
            update_registration(Worker, id, "Failed") =>
               /\ REGISTRATIONS'[id] = [REGISTRATIONS[id] EXCEPT !.state = "Failed"]
               /\ id \in DOMAIN RETRIES'
               /\ RETRIES'[id] = now + RETRY_BACKOFF]_vars
    /\ \A id \in Ids :
          (id \in DOMAIN REGISTRATIONS /\ StateOf(id) = "Failed" /\ ticks < MaxLiveTicks)
             ~> (id \notin DOMAIN REGISTRATIONS \/ OrderTaskFor(id))

\* A registration that failed in its Ready phase was parked, swept back into
\* Tasks and is being worked on again with action Order.
C34_Witness ==
    \E id \in DOMAIN REGISTRATIONS :
       /\ OrderTaskFor(id)
       /\ StateOf(id) = "Failed"
       /\ wk.env.lookup = "err"
       /\ hist[id].dispensedAt = now /\ now >= 2 * RETRY_BACKOFF
       /\ id \notin DOMAIN TASKS

\* C35: every successful updateRegistration(id, s) with s other than Available,
\* made at time now, sets the Expirations due-time of id to now + 6 h whatever it
\* was before.  Nothing else moves the due-time of an id, and a registration is
\* removed only by an expiry run at or after its due-time; so a registration is
\* not expired until 6 h after its last such update.
C35_UpdateRefreshesExpiration ==
    [][\A id \in Ids :
          /\ (Acted("update") /\ resp'.id = id /\ REGISTRATIONS'[id].state # "Available") =>
                /\ resp'.res = "Ok"
                /\ id \in DOMAIN EXPIRATIONS'
                /\ EXPIRATIONS'[id] = now + SixHours
          /\ (id \in DOMAIN EXPIRATIONS /\ id \in DOMAIN EXPIRATIONS'
                 /\ EXPIRATIONS'[id] # EXPIRATIONS[id]) =>
                Acted("update") /\ resp'.id = id
          /\ (id \in DOMAIN REGISTRATIONS /\ id \notin DOMAIN REGISTRATIONS') =>
                /\ Acted("expire")
                /\ id \in DOMAIN EXPIRATIONS /\ EXPIRATIONS[id] <= now]_vars

\* An update made some time after the creation has moved the expiry of its id
\* to 6 h from now.
C35_Witness ==
    /\ resp.op = "update" /\ resp.res = "Ok"
    /\ StateOf(resp.id) # "Available"
    /\ hist[resp.id].createdAt < now
    /\ EXPIRATIONS[resp.id] = now + SixHours
    /\ EXPIRATIONS[resp.id] > hist[resp.id].createdAt + SixHours

\* The ids that are not in the registration store: never created, or expired.
Absent == Ids \ DOMAIN REGISTRATIONS

\* C36: getRegistration, updateRegistration, uploadCertificate and queueTask by an
\* allowed caller for an id that is not in the registration store each answer
\* NotFound and change nothing: every such call that does change a structure
\* names a stored id.
C36_AbsentIdIsNotFound ==
    /\ [](\A c \in ALLOWED_PRINCIPALS : \A id \in Absent :
            /\ get_answer(c, id) = Answer("get", id, "NotFound")
            /\ update_answer(c, id) = Answer("update", id, "NotFound")
            /\ upload_answer(c, id) = Answer("upload", id, "NotFound")
            /\ queue_answer(c, id) = Answer("queue", id, "NotFound"))
    /\ [][/\ \A c \in Principals : \A id \in Absent :
                (\/ get_registration(c, id)
                 \/ \E s \in UpdateInputs : update_registration(c, id, s)
                 \/ \E p \in Pairs : upload_certificate(c, id, p)
                 \/ \E d \in QueueDelays : queue_task(c, id, now + d)) => UNCHANGED vars
          /\ (Acted("get") \/ Acted("update") \/ Acted("upload") \/ Acted("queue")) =>
                resp'.id \in DOMAIN REGISTRATIONS]_vars

\* An allowed caller asks for an id that has expired and for one that was never
\* created.
C36_Witness ==
    \E c \in ALLOWED_PRINCIPALS : \E x \in Absent : \E y \in Absent :
       /\ hist[x].createdAt # None /\ hist[y].createdAt = None
       /\ resp.op = "expire"
       /\ update_answer(c, x).res = "NotFound" /\ upload_answer(c, y).res = "NotFound"
       /\ queue_answer(c, x).res = "NotFound" /\ get_answer(c, y).res = "NotFound"

\* C37: every id that has an entry in the certificate store has a registration in
\* the store, and that registration is Available.
C37_PairOnlyForAvailable ==
    \A id \in DOMAIN ENCRYPTED_CERTIFICATES :
       id \in DOMAIN REGISTRATIONS /\ StateOf(id) = "Available"

\* The caller is let through by every business operation.
LetThrough(c) ==
    /\ \A n \in NameInputs : create_answer(c, n).res # "Unauthorized"
    /\ \A id \in Ids :
          /\ get_answer(c, id).res # "Unauthorized"
          /\ update_answer(c, id).res # "Unauthorized"
          /\ upload_answer(c, id).res # "Unauthorized"
          /\ queue_answer(c, id).res # "Unauthorized"
    /\ export_answer(c).res # "Unauthorized"
    /\ \A a \in dispense_answers(c) \cup peek_answers(c) : a.res # "Unauthorized"

\* The caller is answered Unauthorized by every business operation.
TurnedAway(c) ==
    /\ \A n \in NameInputs : create_answer(c, n).res = "Unauthorized"
    /\ \A id \in Ids :
          /\ get_answer(c, id).res = "Unauthorized"
          /\ update_answer(c, id).res = "Unauthorized"
          /\ upload_answer(c, id).res = "Unauthorized"
          /\ queue_answer(c, id).res = "Unauthorized"
    /\ export_answer(c).res = "Unauthorized"
    /\ \A a \in dispense_answers(c) \cup peek_answers(c) : a.res = "Unauthorized"

\* C38: a principal is let through by the business operations exactly when it is
\* in AllowedPrincipals.  That set is empty after init, although there are root
\* principals, and changes only by an addAllowedPrincipal or rmAllowedPrincipal
\* of a root principal: add(p) leaves p in the set, rm(p) leaves p out of it, and
\* adding a present or removing an absent principal answers Ok and leaves the
\* set as it was.
C38_AllowlistDecidesAccess ==
    /\ ALLOWED_PRINCIPALS = {} /\ ROOT_PRINCIPALS # {}
    /\ [](\A c \in Principals :
            IF c \in ALLOWED_PRINCIPALS THEN LetThrough(c) ELSE TurnedAway(c))
    /\ [](\A c \in ROOT_PRINCIPALS : modify_answer(c) = "Ok")
    /\ [][/\ ALLOWED_PRINCIPALS' # ALLOWED_PRINCIPALS =>
                \E c \in ROOT_PRINCIPALS : \E p \in AllowInputs :
                   \/ add_allowed_principal(c, p)
                        /\ ALLOWED_PRINCIPALS' = ALLOWED_PRINCIPALS \cup {p}
                   \/ rm_allowed_principal(c, p)
                        /\ ALLOWED_PRINCIPALS' = ALLOWED_PRINCIPALS \ {p}
          /\ \A c \in ROOT_PRINCIPALS : \A p \in AllowInputs :
                /\ add_allowed_principal(c, p) =>
                      /\ p \in ALLOWED_PRINCIPALS'
                      /\ p \in ALLOWED_PRINCIPALS => UNCHANGED vars
                /\ rm_allowed_principal(c, p) =>
                      /\ p \notin ALLOWED_PRINCIPALS'
                      /\ p \notin ALLOWED_PRINCIPALS => UNCHANGED vars]_vars

\* The worker was allowed, created a registration and was removed again: it is
\* turned away, and so is the root, which was never added.
C38_Witness ==
    /\ ALLOWED_PRINCIPALS = {}
    /\ ID_COUNTER = 1 /\ Hash(ID_SEED, 1) \in DOMAIN REGISTRATIONS
    /\ TurnedAway("worker")
    /\ \A c \in ROOT_PRINCIPALS : TurnedAway(c) /\ modify_answer(c) = "Ok"

\* C39: every id held in Tasks, Retries or Expirations is the id of a stored
\* registration, so that no id of a removed registration is swept back into
\* Tasks, and a dispenseTask returns no id that getRegistration answers with
\* NotFound.
C39_QueuesNameStoredIds ==
    /\ \A id \in (DOMAIN TASKS) \cup (DOMAIN RETRIES) \cup (DOMAIN EXPIRATIONS) :
          id \in DOMAIN REGISTRATIONS
    /\ \A c \in ALLOWED_PRINCIPALS : \A a \in dispense_answers(c) :
          a.res = "Ok" => get_answer(c, a.id).res # "NotFound"

\* The second call of the worker's dispense has failed.
GetFailed == (W_get \/ W_get_fails) /\ wk'.pc = "idle"

\* C40: the worker's dispense is dispenseTask, then getRegistration.  After the
\* first call the id has left Tasks and has its lease in Retries, and the worker
\* holds no task yet.  When the second call fails (NotFound, Unauthorized, or the
\* query does not get through) the worker has an error and no task and nothing
\* changes at the orchestrator: unless another call has written the id's state,
\* the id is, while the lease runs, outside Tasks and in Retries with its lease,
\* and the retry sweep after the lease puts it back into Tasks, so that a stored
\* registration is in one of the two queues.  When the second call succeeds, the
\* task has the action of the state the registration has then, whatever it was
\* at the dispense.
C40_DispenseIsTwoCalls ==
    [][/\ W_dispense =>
             /\ wk'.pc = "get" /\ wk'.task = NoTask
             /\ wk'.id \notin DOMAIN TASKS'
             /\ RETRIES'[wk'.id] = now + TenMinutes
       /\ GetFailed =>
             /\ wk'.task = NoTask /\ wk'.result = "none"
             /\ UNCHANGED ovars
             /\ (~hist[wk.id].updated /\ ~hist[wk.id].rearmed) =>
                   /\ Leased(wk.id) =>
                         /\ wk.id \notin DOMAIN TASKS
                         /\ wk.id \in DOMAIN RETRIES
                         /\ RETRIES[wk.id] = hist[wk.id].dispensedAt + TenMinutes
                   /\ wk.id \in DOMAIN REGISTRATIONS =>
                         (wk.id \in DOMAIN RETRIES \/ wk.id \in DOMAIN TASKS)
       /\ (W_get /\ get_answer(Worker, wk.id).res # "Ok") => wk'.pc = "idle"
       /\ (W_get /\ wk'.pc = "process") =>
             /\ get_answer(Worker, wk.id).res = "Ok"
             /\ wk'.task = [name |-> REGISTRATIONS[wk.id].name,
                            action |-> ActionFrom(REGISTRATIONS[wk.id].state)]
       /\ \A id \in DOMAIN RETRIES :
             (retry_timer /\ RETRIES[id] <= now) => (id \in DOMAIN TASKS' /\ TASKS'[id] = now)]_vars

\* The worker was taken off the allowlist between its two calls: it has no
\* task, and the registration, still to be ordered, is outside Tasks with its
\* lease in Retries.
C40_Witness ==
    /\ wk.pc = "idle" /\ wk.id # NoId /\ wk.task = NoTask
    /\ Worker \notin ALLOWED_PRINCIPALS
    /\ wk.id \in DOMAIN REGISTRATIONS /\ StateOf(wk.id) = "PendingOrder"
    /\ wk.id \notin DOMAIN TASKS
    /\ wk.id \in DOMAIN RETRIES /\ RETRIES[wk.id] = hist[wk.id].dispensedAt + TenMinutes

====
